---- MODULE Spec2Model ----
(***************************************************************************)
(* nusarithm-iam-be: the multi-tenant store (domains, roles, users), the   *)
(* write operations of the CRUD layer, and the authentication flow         *)
(* (Login, ValidateToken, GetProfile) with its signed session tokens.      *)
(*                                                                         *)
(* Every repository method is one SQL statement (autocommit), so a write   *)
(* is one atomic action. Login and GetProfile issue several statements     *)
(* (user, then role, then domain); they are split at each statement so     *)
(* that writes of other requests interleave between them.                  *)
(***************************************************************************)
EXTENDS Integers, Sequences, FiniteSets, TLC

(* ------------------------------ bounds -------------------------------- *)
\* Identifiers ever handed out by uuid.New(), per table.
MaxDomains == 3
MaxRoles == 3
MaxUsers == 2
\* Successful write statements in one behaviour.
MaxWrites == 1
\* Clock advances in one behaviour.
MaxTicks == 1

(* --------------------------- input alphabets --------------------------- *)
DomainIDs == 1..MaxDomains
RoleIDs == 1..MaxRoles
UserIDs == 1..MaxUsers
DomainNames == {"Gamma"}
DomainKeys == {"beta", "gamma"}
RoleNames == {"admin", "viewer"}
\* role_claims values as sent by the client (nil when the field is absent).
NilClaims == "nil"
EmptyClaims == "{}"
ClaimMaps == {NilClaims, "{read:true}"}
FirstNames == {"Bea"}
LastNames == {"Ray"}
Usernames == {"alice", "bob"}
Emails == {"a@x.io", "b@x.io"}
Passwords == {"s3cret!", "hunter22"}

(* ------------------------------- state --------------------------------- *)
VARIABLES
    domains,    \* table domains: domain_id -> row
    roles,      \* table roles:   id -> row
    users,      \* table users:   id -> row
    allocated,  \* how many identifiers uuid.New() has produced per table
    writes,     \* successful write statements so far
    now,        \* the wall clock, in ticks
    ticks,      \* clock advances so far
    call,       \* the auth request in flight or last answered
    parked,     \* a second auth request, suspended while `call` runs
    reply       \* the response to the last write or list request

vars == <<domains, roles, users, allocated, writes, now, ticks, call, parked,
          reply>>
store == <<domains, roles, users, allocated, writes>>

Restrict(f, S) == [x \in S |-> f[x]]

(* ------------------------- credential hasher --------------------------- *)
\* sha256.Sum256 followed by fmt.Sprintf("%x"): a deterministic digest,
\* collision free within the alphabet.
Sha256Hex(password) == <<"sha256", password>>

\* hashPassword with another digest than the one Login verifies with.
hashPasswordMD5(password) == <<"md5", password>>

\* userService.hashPassword
hashPassword(password) == Sha256Hex(password)

\* userService.VerifyPassword
VerifyPassword(hashedPassword, password) == hashPassword(password) = hashedPassword

\* verifyPassword comparing with another digest than the one stored.
verifyPasswordMD5(hashedPassword, password) == <<"md5", password>> = hashedPassword

\* authService.verifyPassword
verifyPassword(hashedPassword, password) == Sha256Hex(password) = hashedPassword

(* ----------------------- role claims (JSONB) --------------------------- *)
\* json.Marshal of the claims map written to the JSONB column, and
\* json.Unmarshal of the column read back into a fresh map. A nil map is
\* written as JSON null and read back as a nil map.
MarshalClaims(m) == <<"jsonb", IF m = NilClaims THEN "null" ELSE m>>
UnmarshalClaims(j) == IF j[2] = "null" THEN NilClaims ELSE j[2]

(* ---------------------------- seed rows -------------------------------- *)
\* A database that already holds two tenants, each with one role, and one
\* user in the first, as CreateDomain, CreateRole and CreateUser leave it.
SeedDomains ==
    (1 :> [domain_id |-> 1, name |-> "Acme", domain |-> "acme"]) @@
    (2 :> [domain_id |-> 2, name |-> "Beta", domain |-> "beta"])
SeedRoles ==
    (1 :> [id |-> 1, domain_id |-> 1, role_name |-> "admin",
           role_claims |-> MarshalClaims("{read:true}")]) @@
    (2 :> [id |-> 2, domain_id |-> 2, role_name |-> "admin",
           role_claims |-> MarshalClaims(EmptyClaims)])
SeedUser ==
    [id |-> 1, domain_id |-> 1, role_id |-> 1, first_name |-> "Ann",
     last_name |-> "Lee", username |-> "alice", email |-> "a@x.io",
     password_hash |-> hashPassword("s3cret!")]

(* ---------------------------- repositories ----------------------------- *)
\* SELECT ... FROM users WHERE username = $1 (username is UNIQUE)
NoUser == [id |-> 0]
NoRole == [id |-> 0]
NoDomain == [domain_id |-> 0]

UserGetByUsername(username) ==
    IF \E u \in DOMAIN users : users[u].username = username
    THEN users[CHOOSE u \in DOMAIN users : users[u].username = username]
    ELSE NoUser

UserGetByID(id) == IF id \in DOMAIN users THEN users[id] ELSE NoUser

\* roleRepository.GetByID: the row with its claims column unmarshalled.
RoleGetByID(id) ==
    IF id \in DOMAIN roles
    THEN [roles[id] EXCEPT !.role_claims = UnmarshalClaims(@)]
    ELSE NoRole

DomainGetByID(id) == IF id \in DOMAIN domains THEN domains[id] ELSE NoDomain

(* ------------------------------ writes --------------------------------- *)
InFlight == {"role", "domain"}

\* One successful write statement: the three tables after it. A request
\* that has read its user row, in flight or answered, is overtaken by it.
Commit(d, r, u, a) ==
    /\ writes < MaxWrites
    /\ domains' = d
    /\ roles' = r
    /\ users' = u
    /\ allocated' = a
    /\ writes' = writes + 1
    /\ call' = IF call.pc # "idle" THEN [call EXCEPT !.overtaken = TRUE] ELSE call
    /\ parked' = IF parked.pc # "idle"
                 THEN [parked EXCEPT !.overtaken = TRUE]
                 ELSE parked
    /\ UNCHANGED <<now, ticks>>

\* users.role_id REFERENCES roles(id) ON DELETE CASCADE,
\* users.domain_id / roles.domain_id REFERENCES domains(domain_id) ON DELETE CASCADE
RolesAfter(ds) == Restrict(roles, {r \in DOMAIN roles : roles[r].domain_id \in ds})

\* The cascade of users.domain_id alone, as if users.role_id had no
\* ON DELETE CASCADE.
UsersAfterDomainOnly(ds, rs) ==
    Restrict(users, {u \in DOMAIN users : users[u].domain_id \in ds})

UsersAfter(ds, rs) ==
    Restrict(users, {u \in DOMAIN users :
                        users[u].domain_id \in ds /\ users[u].role_id \in rs})

\* gin.H{"error": msg} and gin.H{"message": msg}
ErrorJSON(msg) == [error |-> msg]
MessageJSON(msg) == [message |-> msg]

\* uuid.UUID{}: the identifier of an entity field that was never set.
NilUUID == 0

\* The responses of the writing and listing handlers are not followed.
Unwatched ==
    [op |-> "unwatched", id |-> NilUUID, req |-> <<>>, status |-> 0, body |-> <<>>]

\* No write or list request has been answered yet.
NoReply ==
    [op |-> "none", id |-> NilUUID, req |-> <<>>, status |-> 0, body |-> <<>>]

\* c.JSON(status, body) of handler `op` to the request `req` addressed to `id`.
WriteReply(op, id, req, status, body) ==
    [op |-> op, id |-> id, req |-> req, status |-> status, body |-> body]

Answer(rep) == reply' = IF reply = Unwatched THEN reply ELSE rep

\* A write request that leaves the tables as they are: its statement
\* failed on a constraint, or matched no row.
NoChange(rep) ==
    /\ reply # Unwatched
    /\ writes < MaxWrites
    /\ writes' = writes + 1
    /\ reply' = rep
    /\ UNCHANGED <<domains, roles, users, allocated, now, ticks, call, parked>>

\* users.username UNIQUE alone, as if users.email had no UNIQUE constraint.
UserClashUsernameOnly(username, email, others) ==
    \E u \in others : users[u].username = username

\* users.username UNIQUE, users.email UNIQUE: a row among `others` holds
\* the username or the email already.
UserClash(username, email, others) ==
    \E u \in others : users[u].username = username \/ users[u].email = email

\* roles UNIQUE(domain_id, role_name)
RoleClash(domainID, roleName, others) ==
    \E r \in others :
        roles[r].domain_id = domainID /\ roles[r].role_name = roleName

\* DomainHandler.CreateDomain / domainService.CreateDomain /
\* domainRepository.Create (domains.domain is UNIQUE)
CreateDomain(name, key) ==
    LET req == [name |-> name, domain |-> key]
    IN IF \E d \in DOMAIN domains : domains[d].domain = key
       THEN NoChange(WriteReply("CreateDomain", NilUUID, req, 500,
                                ErrorJSON("Failed to create domain")))
       ELSE /\ allocated.domains < MaxDomains
            /\ LET id == allocated.domains + 1
                   row == [domain_id |-> id, name |-> name, domain |-> key]
               IN /\ Commit(domains @@ (id :> row), roles, users,
                            [allocated EXCEPT !.domains = id])
                  /\ Answer(WriteReply("CreateDomain", id, req, 201, row))

\* DomainHandler.UpdateDomain / domainService.UpdateDomain /
\* domainRepository.Update
UpdateDomain(id, name, key) ==
    LET req == [name |-> name, domain |-> key]
        domain == [domain_id |-> id, name |-> name, domain |-> key]
    IN IF id \notin DOMAIN domains
       THEN NoChange(WriteReply("UpdateDomain", id, req, 200, domain))
       ELSE IF \E d \in DOMAIN domains \ {id} : domains[d].domain = key
       THEN NoChange(WriteReply("UpdateDomain", id, req, 500,
                                ErrorJSON("Failed to update domain")))
       ELSE /\ Commit([domains EXCEPT ![id].name = name, ![id].domain = key],
                      roles, users, allocated)
            /\ Answer(WriteReply("UpdateDomain", id, req, 200, domain))

\* DomainHandler.DeleteDomain / domainService.DeleteDomain /
\* domainRepository.Delete
DeleteDomain(id) ==
    LET rep == WriteReply("DeleteDomain", id, <<>>, 204,
                          MessageJSON("Domain deleted successfully"))
    IN IF id \notin DOMAIN domains
       THEN NoChange(rep)
       ELSE LET ds == DOMAIN domains \ {id}
                rs == RolesAfter(ds)
            IN /\ Commit(Restrict(domains, ds), rs, UsersAfter(ds, DOMAIN rs),
                         allocated)
               /\ Answer(rep)

\* The entities.Role the role handlers encode.
RoleEntity(id, domainID, roleName, claims) ==
    [id |-> id, domain_id |-> domainID, role_name |-> roleName,
     role_claims |-> claims]

\* RoleHandler.CreateRole / roleService.CreateRole / roleRepository.Create
CreateRole(domainID, roleName, roleClaims) ==
    LET req == [domain_id |-> domainID, role_name |-> roleName,
                role_claims |-> roleClaims]
        claims == IF roleClaims = NilClaims THEN EmptyClaims ELSE roleClaims
    IN IF \/ domainID \notin DOMAIN domains
          \/ RoleClash(domainID, roleName, DOMAIN roles)
       THEN NoChange(WriteReply("CreateRole", NilUUID, req, 500,
                                ErrorJSON("Failed to create role")))
       ELSE /\ allocated.roles < MaxRoles
            /\ LET id == allocated.roles + 1
               IN /\ Commit(domains,
                            roles @@ (id :> [id |-> id, domain_id |-> domainID,
                                             role_name |-> roleName,
                                             role_claims |-> MarshalClaims(claims)]),
                            users, [allocated EXCEPT !.roles = id])
                  /\ Answer(WriteReply("CreateRole", id, req, 201,
                                       RoleEntity(id, domainID, roleName, claims)))

\* RoleHandler.UpdateRole / roleService.UpdateRole / roleRepository.Update
UpdateRole(id, roleName, roleClaims) ==
    LET req == [role_name |-> roleName, role_claims |-> roleClaims]
        claims == IF roleClaims = NilClaims THEN EmptyClaims ELSE roleClaims
        role == RoleEntity(id, NilUUID, roleName, claims)
    IN IF id \notin DOMAIN roles
       THEN NoChange(WriteReply("UpdateRole", id, req, 200, role))
       ELSE IF RoleClash(roles[id].domain_id, roleName, DOMAIN roles \ {id})
       THEN NoChange(WriteReply("UpdateRole", id, req, 500,
                                ErrorJSON("Failed to update role")))
       ELSE /\ Commit(domains,
                      [roles EXCEPT ![id].role_name = roleName,
                                    ![id].role_claims = MarshalClaims(claims)],
                      users, allocated)
            /\ Answer(WriteReply("UpdateRole", id, req, 200, role))

\* RoleHandler.DeleteRole / roleService.DeleteRole / roleRepository.Delete
DeleteRole(id) ==
    LET rep == WriteReply("DeleteRole", id, <<>>, 204,
                          MessageJSON("Role deleted successfully"))
    IN IF id \notin DOMAIN roles
       THEN NoChange(rep)
       ELSE LET rs == DOMAIN roles \ {id}
            IN /\ Commit(domains, Restrict(roles, rs),
                         UsersAfter(DOMAIN domains, rs), allocated)
               /\ Answer(rep)

\* The entities.User the user handlers encode (PasswordHash is json:"-").
UserEntity(id, domainID, roleID, firstName, lastName, username, email) ==
    [id |-> id, domain_id |-> domainID, role_id |-> roleID,
     first_name |-> firstName, last_name |-> lastName,
     username |-> username, email |-> email]

\* UserHandler.CreateUser / userService.CreateUser / userRepository.Create
CreateUser(domainID, roleID, firstName, lastName, username, email, password) ==
    LET req == [domain_id |-> domainID, role_id |-> roleID,
                first_name |-> firstName, last_name |-> lastName,
                username |-> username, email |-> email, password |-> password]
    IN IF \/ domainID \notin DOMAIN domains
          \/ roleID \notin DOMAIN roles
          \/ UserClash(username, email, DOMAIN users)
       THEN NoChange(WriteReply("CreateUser", NilUUID, req, 500,
                                ErrorJSON("Failed to create user")))
       ELSE /\ allocated.users < MaxUsers
            /\ LET id == allocated.users + 1
               IN /\ Commit(domains, roles,
                            users @@ (id :> [id |-> id, domain_id |-> domainID,
                                             role_id |-> roleID,
                                             first_name |-> firstName,
                                             last_name |-> lastName,
                                             username |-> username,
                                             email |-> email,
                                             password_hash |-> hashPassword(password)]),
                            [allocated EXCEPT !.users = id])
                  /\ Answer(WriteReply("CreateUser", id, req, 201,
                                       UserEntity(id, domainID, roleID, firstName,
                                                  lastName, username, email)))

\* UserHandler.UpdateUser / userService.UpdateUser / userRepository.Update
UpdateUser(id, firstName, lastName, username, email, roleID) ==
    LET req == [first_name |-> firstName, last_name |-> lastName,
                username |-> username, email |-> email, role_id |-> roleID]
        user == UserEntity(id, NilUUID, roleID, firstName, lastName,
                           username, email)
    IN IF id \notin DOMAIN users
       THEN NoChange(WriteReply("UpdateUser", id, req, 200, user))
       ELSE IF \/ roleID \notin DOMAIN roles
               \/ UserClash(username, email, DOMAIN users \ {id})
       THEN NoChange(WriteReply("UpdateUser", id, req, 500,
                                ErrorJSON("Failed to update user")))
       ELSE /\ Commit(domains, roles,
                      [users EXCEPT ![id].first_name = firstName,
                                    ![id].last_name = lastName,
                                    ![id].username = username,
                                    ![id].email = email,
                                    ![id].role_id = roleID],
                      allocated)
            /\ Answer(WriteReply("UpdateUser", id, req, 200, user))

\* ResetUserPassword storing the new password as it came.
ResetUserPasswordPlain(id, newPassword) ==
    LET rep == WriteReply("ResetUserPassword", id,
                          [new_password |-> newPassword], 200,
                          MessageJSON("Password reset successfully"))
    IN IF id \notin DOMAIN users
       THEN NoChange(rep)
       ELSE /\ Commit(domains, roles,
                      [users EXCEPT ![id].password_hash = newPassword],
                      allocated)
            /\ Answer(rep)

\* ResetUserPassword whose UPDATE has no WHERE clause: every user's hash
\* is replaced.
ResetUserPasswordAll(id, newPassword) ==
    LET rep == WriteReply("ResetUserPassword", id,
                          [new_password |-> newPassword], 200,
                          MessageJSON("Password reset successfully"))
    IN IF id \notin DOMAIN users
       THEN NoChange(rep)
       ELSE /\ Commit(domains, roles,
                      [u \in DOMAIN users |->
                          [users[u] EXCEPT !.password_hash = hashPassword(newPassword)]],
                      allocated)
            /\ Answer(rep)

\* UserHandler.ResetUserPassword / userService.ResetUserPassword /
\* userRepository.UpdatePassword
ResetUserPassword(id, newPassword) ==
    LET rep == WriteReply("ResetUserPassword", id,
                          [new_password |-> newPassword], 200,
                          MessageJSON("Password reset successfully"))
    IN IF id \notin DOMAIN users
       THEN NoChange(rep)
       ELSE /\ Commit(domains, roles,
                      [users EXCEPT ![id].password_hash = hashPassword(newPassword)],
                      allocated)
            /\ Answer(rep)

\* UserHandler.DeleteUser / userService.DeleteUser / userRepository.Delete
DeleteUser(id) ==
    LET rep == WriteReply("DeleteUser", id, <<>>, 204,
                          MessageJSON("User deleted successfully"))
    IN IF id \notin DOMAIN users
       THEN NoChange(rep)
       ELSE /\ Commit(domains, roles, Restrict(users, DOMAIN users \ {id}),
                      allocated)
            /\ Answer(rep)

(* ------------------------------- clock --------------------------------- *)
\* Clock resolution: time.Now() is finer than the one-second precision of
\* the numeric dates inside a token.
TicksPerSecond == 2

Seconds(n) == n * TicksPerSecond

\* jwt.NewNumericDate: the instant truncated to jwt.TimePrecision (a second).
NewNumericDate(t) == t \div TicksPerSecond

\* The instant a numeric date denotes, in ticks.
InstantOf(numericDate) == numericDate * TicksPerSecond

(* ---------------------------- auth service ----------------------------- *)
\* 24 * time.Hour
tokenExpiry == 24 * 3600 * TicksPerSecond

\* routes.SetupRouter: services.NewAuthService(..., "your-secret-key")
NewAuthService(jwtSecret) == [jwtSecret |-> jwtSecret, tokenExpiry |-> tokenExpiry]

authService == NewAuthService("your-secret-key")

(* ----------------------------- token codec ----------------------------- *)
\* uuid.UUID.String and uuid.Parse
UUIDString(id) == <<"uuid", id>>
UUIDParse(str) == str[2]

NoTime == -1

HMACMethods == {"HS256", "HS384", "HS512"}
\* jwt.GetSigningMethod knows these names; any other name is unavailable.
RegisteredMethods == HMACMethods \cup {"RS256", "ES256", "none"}

\* The signature of `input` under `method` with `key` (an ideal MAC: it is
\* reproduced only with the same method, key and input).
Sign(method, key, input) ==
    IF method = "none" THEN <<>> ELSE <<method, key, input>>

\* EncodeClaims with the role id and the domain id under each other's key.
EncodeClaimsSwapped(c) ==
    [user_id |-> UUIDString(c.UserID), domain_id |-> UUIDString(c.RoleID),
     username |-> c.Username, role_id |-> UUIDString(c.DomainID),
     exp |-> c.ExpiresAt, iat |-> c.IssuedAt, nbf |-> c.NotBefore,
     iss |-> c.Issuer, sub |-> c.Subject]

\* The JSON form of TokenClaims: identifiers as strings, dates as seconds,
\* absent dates omitted.
EncodeClaims(c) ==
    [user_id |-> UUIDString(c.UserID), domain_id |-> UUIDString(c.DomainID),
     username |-> c.Username, role_id |-> UUIDString(c.RoleID),
     exp |-> c.ExpiresAt, iat |-> c.IssuedAt, nbf |-> c.NotBefore,
     iss |-> c.Issuer, sub |-> c.Subject]

DecodeClaims(p) ==
    [UserID |-> UUIDParse(p.user_id), DomainID |-> UUIDParse(p.domain_id),
     Username |-> p.username, RoleID |-> UUIDParse(p.role_id),
     ExpiresAt |-> p.exp, IssuedAt |-> p.iat, NotBefore |-> p.nbf,
     Issuer |-> p.iss, Subject |-> p.sub]

\* jwt.NewWithClaims(method, claims).SignedString(key)
SignedString(method, claims, key) ==
    LET header == [alg |-> method, typ |-> "JWT"]
        payload == EncodeClaims(claims)
    IN [header |-> header, payload |-> payload,
        signature |-> Sign(method, key, <<header, payload>>)]

\* The empty string: what a client without a token can present.
NoToken == [malformed |-> TRUE]
NoClaims == [UserID |-> 0]

\* The TokenClaims literal of authService.generateToken; t1, t2, t3 are its
\* three readings of time.Now().
TokenClaims(s, user, t1, t2, t3) ==
    [UserID |-> user.id, DomainID |-> user.domain_id,
     Username |-> user.username, RoleID |-> user.role_id,
     ExpiresAt |-> NewNumericDate(t1 + s.tokenExpiry),
     IssuedAt |-> NewNumericDate(t2),
     NotBefore |-> NewNumericDate(t3),
     Issuer |-> "nusarithm-iam",
     Subject |-> UUIDString(user.id)]

\* authService.generateToken
generateToken(s, user, t1, t2, t3) ==
    SignedString("HS256", TokenClaims(s, user, t1, t2, t3), s.jwtSecret)

\* The key function handed to jwt.ParseWithClaims.
KeyfuncAccepts(method) == method \in HMACMethods

\* ClaimErrors accepting a token at the very instant of its expiry.
ClaimErrorsClosed(c, t) ==
    (IF c.ExpiresAt # NoTime /\ t > InstantOf(c.ExpiresAt)
     THEN <<"token is expired">> ELSE <<>>)
    \o
    (IF c.NotBefore # NoTime /\ t < InstantOf(c.NotBefore)
     THEN <<"token is not valid yet">> ELSE <<>>)

\* ClaimErrors with a second of leeway on both dates.
ClaimErrorsLeeway(c, t) ==
    (IF c.ExpiresAt # NoTime /\ ~(t < InstantOf(c.ExpiresAt + 1))
     THEN <<"token is expired">> ELSE <<>>)
    \o
    (IF c.NotBefore # NoTime /\ t < InstantOf(c.NotBefore - 1)
     THEN <<"token is not valid yet">> ELSE <<>>)

\* jwt.Validator on the registered claims at instant t: exp and nbf are
\* checked when present, iat is not checked.
ClaimErrors(c, t) ==
    (IF c.ExpiresAt # NoTime /\ ~(t < InstantOf(c.ExpiresAt))
     THEN <<"token is expired">> ELSE <<>>)
    \o
    (IF c.NotBefore # NoTime /\ t < InstantOf(c.NotBefore)
     THEN <<"token is not valid yet">> ELSE <<>>)

\* jwt.ParseWithClaims(tokenString, &TokenClaims{}, keyfunc) at instant t:
\* the method named by the header is looked up, the key function is asked
\* for the key, the signature is verified, then the dates are validated.
ParseWithClaims(s, tokenString, t) ==
    IF tokenString = NoToken
    THEN [claims |-> NoClaims, err |-> <<"token is malformed">>]
    ELSE LET method == tokenString.header.alg
             claims == DecodeClaims(tokenString.payload)
         IN IF method \notin RegisteredMethods
            THEN [claims |-> NoClaims,
                  err |-> <<"token is unverifiable",
                            "signing method (alg) is unavailable">>]
            ELSE IF ~KeyfuncAccepts(method)
            THEN [claims |-> NoClaims,
                  err |-> <<"token is unverifiable",
                            "error while executing keyfunc",
                            "unexpected signing method">>]
            ELSE IF tokenString.signature #
                        Sign(method, s.jwtSecret,
                             <<tokenString.header, tokenString.payload>>)
            THEN [claims |-> NoClaims,
                  err |-> <<"token signature is invalid", "signature is invalid">>]
            ELSE IF ClaimErrors(claims, t) # <<>>
            THEN [claims |-> NoClaims,
                  err |-> <<"token has invalid claims">> \o ClaimErrors(claims, t)]
            ELSE [claims |-> claims, err |-> <<>>]

\* ValidateToken refusing the token of a user who is no longer stored.
ValidateTokenRevoking(s, tokenString, t) ==
    LET parsed == ParseWithClaims(s, tokenString, t)
    IN IF parsed.err # <<>>
       THEN [claims |-> NoClaims, err |-> <<"invalid token">> \o parsed.err]
       ELSE IF parsed.claims.UserID \notin DOMAIN users
       THEN [claims |-> NoClaims, err |-> <<"invalid token", "token revoked">>]
       ELSE [claims |-> parsed.claims, err |-> <<>>]

\* ValidateToken answering with the stored username of the token's user.
ValidateTokenRefreshing(s, tokenString, t) ==
    LET parsed == ParseWithClaims(s, tokenString, t)
    IN IF parsed.err # <<>>
       THEN [claims |-> NoClaims, err |-> <<"invalid token">> \o parsed.err]
       ELSE IF parsed.claims.UserID \in DOMAIN users
       THEN [claims |-> [parsed.claims EXCEPT
                            !.Username = users[parsed.claims.UserID].username],
             err |-> <<>>]
       ELSE [claims |-> parsed.claims, err |-> <<>>]

\* authService.ValidateToken at instant t: the claims and a nil error, or
\* no claims and the error of jwt.ParseWithClaims wrapped.
ValidateToken(s, tokenString, t) ==
    LET parsed == ParseWithClaims(s, tokenString, t)
    IN IF parsed.err # <<>>
       THEN [claims |-> NoClaims, err |-> <<"invalid token">> \o parsed.err]
       ELSE [claims |-> parsed.claims, err |-> <<>>]

(* -------------------------- profile assembler -------------------------- *)
NoProfile == [ID |-> 0]

\* UserProfile with the display name in the domain's third field.
UserProfileNamingDomain(user, role, domain) ==
    [ID |-> user.id, Username |-> user.username, Email |-> user.email,
     FirstName |-> user.first_name, LastName |-> user.last_name,
     Role |-> [ID |-> role.id, Name |-> role.role_name, Description |-> "",
               Claims |-> role.role_claims],
     Domain |-> [ID |-> domain.domain_id, Name |-> domain.name,
                 Description |-> domain.name]]

\* The UserProfile literal returned by authService.buildUserProfile.
\* buildUserProfile leaving the role out of the profile when the role row
\* belongs to another domain than the user row.
UserProfileOwnTenantRole(user, role, domain) ==
    [ID |-> user.id, Username |-> user.username, Email |-> user.email,
     FirstName |-> user.first_name, LastName |-> user.last_name,
     Role |-> IF role.domain_id = user.domain_id
              THEN [ID |-> role.id, Name |-> role.role_name, Description |-> "",
                    Claims |-> role.role_claims]
              ELSE [ID |-> NilUUID, Name |-> "", Description |-> "",
                    Claims |-> EmptyClaims],
     Domain |-> [ID |-> domain.domain_id, Name |-> domain.name,
                 Description |-> domain.domain]]

UserProfile(user, role, domain) ==
    [ID |-> user.id, Username |-> user.username, Email |-> user.email,
     FirstName |-> user.first_name, LastName |-> user.last_name,
     Role |-> [ID |-> role.id, Name |-> role.role_name, Description |-> "",
               Claims |-> role.role_claims],
     Domain |-> [ID |-> domain.domain_id, Name |-> domain.name,
                 Description |-> domain.domain]]

\* The nested profile as the handlers serialise it (AuthResponse.User in
\* Login, the profile map in GetProfile).
ProfileJSON(p) ==
    [id |-> UUIDString(p.ID), username |-> p.Username, email |-> p.Email,
     first_name |-> p.FirstName, last_name |-> p.LastName,
     role |-> [id |-> UUIDString(p.Role.ID), name |-> p.Role.Name,
               description |-> p.Role.Description, claims |-> p.Role.Claims],
     domain |-> [id |-> UUIDString(p.Domain.ID), name |-> p.Domain.Name,
                 description |-> p.Domain.Description]]

(* ----------------------------- auth requests --------------------------- *)
\* gin.H{"error": msg}
NoBody == [pending |-> TRUE]

\* No request yet. `token` is the token the client holds, `header` the
\* header the request came with (X-NRM-DID or Authorization), `storage` the
\* state of the database connection during the request; `user`, `role` are
\* the rows the request has read; `overtaken` records that a write
\* committed after the request arrived, `concurrent` that the request was
\* in flight together with another one.
IdleCall ==
    [op |-> "none", pc |-> "idle", header |-> "", storage |-> "up",
     concurrent |-> FALSE, domainID |-> 0,
     username |-> "", password |-> "", token |-> NoToken, user |-> NoUser,
     role |-> NoRole, overtaken |-> FALSE, err |-> <<>>, claims |-> NoClaims,
     profile |-> NoProfile, status |-> 0, body |-> NoBody]

Ready == call.pc \in {"idle", "done"}

\* A request of kind op by the client holding `token`.
NewCall(op, token) == [IdleCall EXCEPT !.op = op, !.token = token]

\* Between two requests the client holds its token and nothing else.
Holding(token) == [IdleCall EXCEPT !.token = token]

\* The request answered with status and body.
Respond(c, status, body) == [c EXCEPT !.pc = "done", !.status = status, !.body = body]

Contains(err, text) == \E i \in 1..Len(err) : err[i] = text

\* AuthHandler.Login after authService.Login returned err.
LoginFailure(c, err) ==
    IF Contains(err, "invalid credentials")
    THEN Respond([c EXCEPT !.err = err, !.token = NoToken], 401,
                 ErrorJSON("Invalid username or password"))
    ELSE Respond([c EXCEPT !.err = err, !.token = NoToken], 500,
                 ErrorJSON("Login failed"))

\* ProfileFailure answering 404.
ProfileFailureNotFound(c, err) ==
    Respond([c EXCEPT !.err = err], 404, ErrorJSON("User not found"))

\* AuthHandler.GetProfile after authService.GetProfile returned err.
ProfileFailure(c, err) ==
    Respond([c EXCEPT !.err = err], 401, ErrorJSON("User not found"))

\* The requests POST /auth/login is given: the X-NRM-DID header missing or
\* not a UUID, the JSON body not binding, or a domain id with a username
\* and a password; the last also while the database is unreachable, for
\* the domain of the seeded user.
LoginRequests ==
    {[hdr |-> h, body |-> "bound", storage |-> "up", domainID |-> 0,
      username |-> "", password |-> ""] : h \in {"missing", "malformed"}}
    \cup
    {[hdr |-> "uuid", body |-> "bad", storage |-> "up",
      domainID |-> SeedUser.domain_id, username |-> "", password |-> ""]}
    \cup
    [hdr : {"uuid"}, body : {"bound"}, storage : {"up"},
     domainID : DomainIDs, username : Usernames, password : Passwords]
    \cup
    [hdr : {"uuid"}, body : {"bound"}, storage : {"unreachable"},
     domainID : {SeedUser.domain_id}, username : Usernames, password : Passwords]

\* authService.Login: the user belongs to the specified domain.
DomainMatches(user, domainID) == user.domain_id = domainID

\* LoginError without the comparison of the user's domain.
LoginErrorAnyDomain(user, domainID, password) ==
    IF user = NoUser THEN <<"invalid credentials">>
    ELSE IF ~verifyPassword(user.password_hash, password)
    THEN <<"invalid credentials">>
    ELSE <<>>

\* LoginError naming the cause of each failure.
LoginErrorNamingCause(user, domainID, password) ==
    IF user = NoUser THEN <<"user not found">>
    ELSE IF ~DomainMatches(user, domainID) THEN <<"invalid credentials">>
    ELSE IF ~verifyPassword(user.password_hash, password)
    THEN <<"wrong password">>
    ELSE <<>>

\* The error of authService.Login before a token is generated, for the row
\* GetByUsername returned: nil when the credentials are accepted.
LoginError(user, domainID, password) ==
    IF user = NoUser THEN <<"invalid credentials">>
    ELSE IF ~DomainMatches(user, domainID) THEN <<"invalid credentials">>
    ELSE IF ~verifyPassword(user.password_hash, password)
    THEN <<"invalid credentials">>
    ELSE <<>>

\* Login storing a fresh digest of the password it has just verified.
LoginRehashing(req) ==
    /\ Ready
    /\ UNCHANGED <<domains, roles, allocated, writes, now, ticks, parked, reply>>
    /\ LET c == [NewCall("Login", NoToken) EXCEPT !.header = req.hdr]
           user == IF req.storage = "unreachable"
                   THEN NoUser
                   ELSE UserGetByUsername(req.username)
           in == [c EXCEPT !.storage = req.storage, !.domainID = req.domainID,
                           !.username = req.username,
                           !.password = req.password, !.user = user]
           err == LoginError(user, req.domainID, req.password)
       IN IF req.hdr = "missing"
          THEN /\ call' = Respond(c, 400, ErrorJSON("X-NRM-DID header is required"))
               /\ users' = users
          ELSE IF req.hdr = "malformed"
          THEN /\ call' = Respond(c, 400,
                                  ErrorJSON("Invalid domain UUID in X-NRM-DID header"))
               /\ users' = users
          ELSE IF req.body = "bad"
          THEN /\ call' = Respond(c, 400, ErrorJSON("binding error"))
               /\ users' = users
          ELSE IF err # <<>>
          THEN /\ call' = LoginFailure(in, err)
               /\ users' = users
          ELSE /\ call' = [in EXCEPT
                             !.pc = "role",
                             !.token = generateToken(authService, user, now, now, now)]
               /\ users' = [users EXCEPT
                              ![user.id].password_hash = <<"bcrypt", req.password>>]

\* POST /auth/login: AuthHandler.Login and authService.Login up to and
\* including generateToken, whose three readings of the clock fall into
\* the same tick. userRepo.GetByUsername returns no user and an error both
\* when no row matches and when the query fails.
Login(req) ==
    /\ Ready
    /\ UNCHANGED <<store, now, ticks, parked, reply>>
    /\ LET c == [NewCall("Login", NoToken) EXCEPT !.header = req.hdr]
           user == IF req.storage = "unreachable"
                   THEN NoUser
                   ELSE UserGetByUsername(req.username)
           in == [c EXCEPT !.storage = req.storage, !.domainID = req.domainID,
                           !.username = req.username,
                           !.password = req.password, !.user = user]
           err == LoginError(user, req.domainID, req.password)
       IN IF req.hdr = "missing"
          THEN call' = Respond(c, 400, ErrorJSON("X-NRM-DID header is required"))
          ELSE IF req.hdr = "malformed"
          THEN call' = Respond(c, 400,
                               ErrorJSON("Invalid domain UUID in X-NRM-DID header"))
          ELSE IF req.body = "bad"
          THEN call' = Respond(c, 400, ErrorJSON("binding error"))
          ELSE IF err # <<>>
          THEN call' = LoginFailure(in, err)
          ELSE call' = [in EXCEPT
                          !.pc = "role",
                          !.token = generateToken(authService, user, now, now, now)]

\* buildUserProfile reading the user row again before it reads the role.
BuildRoleRereading ==
    /\ call.pc = "role"
    /\ UNCHANGED <<store, now, ticks, parked, reply>>
    /\ LET user == UserGetByID(call.user.id)
           role == IF user = NoUser THEN NoRole ELSE RoleGetByID(user.role_id)
           err == <<"failed to get role", "sql: no rows in result set">>
       IN IF role = NoRole
          THEN call' = IF call.op = "Login"
                       THEN LoginFailure(call, <<"failed to build user profile">> \o err)
                       ELSE ProfileFailure(call, err)
          ELSE call' = [call EXCEPT !.pc = "domain", !.role = role]

\* authService.buildUserProfile, first statement: roleRepo.GetByID.
BuildRole ==
    /\ call.pc = "role"
    /\ UNCHANGED <<store, now, ticks, parked, reply>>
    /\ LET role == RoleGetByID(call.user.role_id)
           err == <<"failed to get role", "sql: no rows in result set">>
       IN IF role = NoRole
          THEN call' = IF call.op = "Login"
                       THEN LoginFailure(call, <<"failed to build user profile">> \o err)
                       ELSE ProfileFailure(call, err)
          ELSE call' = [call EXCEPT !.pc = "domain", !.role = role]

\* authService.buildUserProfile, second statement: domainRepo.GetByID, then
\* the answer of the handler that asked for the profile.
BuildDomain ==
    /\ call.pc = "domain"
    /\ UNCHANGED <<store, now, ticks, parked, reply>>
    /\ LET domain == DomainGetByID(call.user.domain_id)
           err == <<"failed to get domain", "sql: no rows in result set">>
           profile == UserProfile(call.user, call.role, domain)
           done == [call EXCEPT !.profile = profile]
       IN IF domain = NoDomain
          THEN call' = IF call.op = "Login"
                       THEN LoginFailure(call, <<"failed to build user profile">> \o err)
                       ELSE ProfileFailure(call, err)
          ELSE call' = IF call.op = "Login"
                       THEN Respond(done, 200,
                                    [token |-> call.token, user |-> ProfileJSON(profile)])
                       ELSE Respond(done, 200, ProfileJSON(profile))

\* The Authorization header a client holding `token` can send.
AuthHeaders == {"missing", "no-bearer-prefix", "bearer"}

\* POST /auth/validate: AuthHandler.ValidateToken.
Validate(authHeader) ==
    /\ Ready
    /\ UNCHANGED <<store, now, ticks, parked, reply>>
    /\ LET c == [NewCall("ValidateToken", call.token) EXCEPT !.header = authHeader]
           res == ValidateToken(authService, call.token, now)
       IN IF authHeader = "missing"
          THEN call' = Respond(c, 401, ErrorJSON("Authorization header is required"))
          ELSE IF authHeader = "no-bearer-prefix"
          THEN call' = Respond(c, 401, ErrorJSON("Invalid authorization header format"))
          ELSE IF res.err # <<>>
          THEN call' = Respond([c EXCEPT !.err = res.err], 401,
                               ErrorJSON("Invalid or expired token"))
          ELSE call' = Respond([c EXCEPT !.claims = res.claims], 200,
                               [valid |-> TRUE, claims |-> EncodeClaims(res.claims)])

\* GET /auth/profile: AuthHandler.GetProfile and authService.GetProfile up
\* to and including userRepo.GetByID.
GetProfile(authHeader) ==
    /\ Ready
    /\ UNCHANGED <<store, now, ticks, parked, reply>>
    /\ LET c == [NewCall("GetProfile", call.token) EXCEPT !.header = authHeader]
           res == ValidateToken(authService, call.token, now)
           user == UserGetByID(res.claims.UserID)
       IN IF authHeader = "missing"
          THEN call' = Respond(c, 401, ErrorJSON("Authorization header is required"))
          ELSE IF authHeader = "no-bearer-prefix"
          THEN call' = Respond(c, 401, ErrorJSON("Invalid authorization header format"))
          ELSE IF res.err # <<>>
          THEN call' = Respond([c EXCEPT !.err = res.err], 401,
                               ErrorJSON("Invalid or expired token"))
          ELSE IF user = NoUser
          THEN call' = ProfileFailure([c EXCEPT !.claims = res.claims],
                                      <<"user not found">>)
          ELSE call' = [c EXCEPT !.pc = "role", !.claims = res.claims, !.user = user]

(* ------------------------------- clock --------------------------------- *)
\* How far the clock moves between two requests: up to the last tick
\* before, or to the very instant of, the expiry of a token just issued.
ClockSteps == {tokenExpiry - Seconds(1), tokenExpiry - 1}

\* Time passes between two requests; the client keeps its token.
Tick(d) ==
    /\ ticks < MaxTicks
    /\ Ready
    /\ now' = now + d
    /\ ticks' = ticks + 1
    /\ call' = Holding(call.token)
    /\ UNCHANGED <<store, parked, reply>>

(* --------------------------- specification ----------------------------- *)
Init ==
    /\ domains = SeedDomains
    /\ roles = SeedRoles
    /\ users = (1 :> SeedUser)
    /\ allocated = [domains |-> 2, roles |-> 2, users |-> 1]
    /\ writes = 0
    /\ now = 1
    /\ ticks = 0
    /\ call = IdleCall
    /\ parked = IdleCall
    /\ reply = Unwatched

Next ==
    \/ \E n \in DomainNames, k \in DomainKeys : CreateDomain(n, k)
    \/ \E id \in DomainIDs, n \in DomainNames, k \in DomainKeys : UpdateDomain(id, n, k)
    \/ \E id \in DomainIDs : DeleteDomain(id)
    \/ \E d \in DomainIDs, n \in RoleNames, c \in ClaimMaps : CreateRole(d, n, c)
    \/ \E id \in RoleIDs, n \in RoleNames, c \in ClaimMaps : UpdateRole(id, n, c)
    \/ \E id \in RoleIDs : DeleteRole(id)
    \/ \E d \in DomainIDs, r \in RoleIDs, f \in FirstNames, l \in LastNames,
          u \in Usernames, e \in Emails, p \in Passwords :
            CreateUser(d, r, f, l, u, e, p)
    \/ \E id \in UserIDs, f \in FirstNames, l \in LastNames, u \in Usernames,
          e \in Emails, r \in RoleIDs :
            UpdateUser(id, f, l, u, e, r)
    \/ \E id \in UserIDs, p \in Passwords : ResetUserPassword(id, p)
    \/ \E id \in UserIDs : DeleteUser(id)
    \/ \E req \in LoginRequests : Login(req)
    \/ BuildRole
    \/ BuildDomain
    \/ \E h \in AuthHeaders : Validate(h)
    \/ \E h \in AuthHeaders : GetProfile(h)
    \/ \E d \in ClockSteps : Tick(d)

Spec == Init /\ [][Next]_vars

(* ------------------- specification of the token codec ------------------ *)
\* The client presents one token to POST /auth/validate, at the instant
\* the token was made and at later instants. The token is what
\* generateToken makes for the seeded user under a configured lifetime, or
\* what somebody else makes from the same claims: signed by another method
\* or with another key, with a date left out or moved a second ahead, or
\* with the payload changed after signing.
CodecExpiries == {0 - Seconds(1), 0, Seconds(1), tokenExpiry}
CodecMethods == {"HS256", "HS384", "RS256", "none", "XS1"}
CodecKeys == {authService.jwtSecret, "attacker-key"}
CodecEdits == {"keep", "no-exp", "no-nbf", "post-dated", "tamper"}

\* The first reading of the clock, on and off a second boundary.
CodecInstants == {Seconds(1), Seconds(1) + 1}

\* claims as edit leaves them before signing.
EditClaims(claims, edit) ==
    IF edit = "no-exp" THEN [claims EXCEPT !.ExpiresAt = NoTime]
    ELSE IF edit = "no-nbf" THEN [claims EXCEPT !.NotBefore = NoTime]
    ELSE IF edit = "post-dated"
    THEN [claims EXCEPT !.NotBefore = claims.NotBefore + 1]
    ELSE claims

\* The token string after edit: "tamper" rewrites the user id in the payload
\* and keeps the signature.
EditToken(token, edit) ==
    IF edit = "tamper"
    THEN [token EXCEPT !.payload.user_id = UUIDString(2),
                       !.payload.sub = UUIDString(2)]
    ELSE token

CodecToken(expiry, method, key, edit, t1, t2, t3) ==
    LET s == [authService EXCEPT !.tokenExpiry = expiry]
        claims == EditClaims(TokenClaims(s, SeedUser, t1, t2, t3), edit)
    IN EditToken(SignedString(method, claims, key), edit)

\* The instants around the dates of the held token.
Landmarks ==
    LET c == DecodeClaims(call.token.payload)
        dates == {c.ExpiresAt, c.NotBefore} \ {NoTime}
    IN {InstantOf(d) + k : d \in dates, k \in {0 - 1, 0, 1}}

InitCodec ==
    /\ domains = SeedDomains
    /\ roles = SeedRoles
    /\ users = (1 :> SeedUser)
    /\ allocated = [domains |-> 2, roles |-> 2, users |-> 1]
    /\ writes = 0
    /\ ticks = 0
    /\ parked = IdleCall
    /\ reply = Unwatched
    /\ \E expiry \in CodecExpiries, method \in CodecMethods, key \in CodecKeys,
          edit \in CodecEdits, t1 \in CodecInstants, d2 \in 0..1, d3 \in 0..1 :
          /\ now = t1 + d2 + d3
          /\ call = Holding(CodecToken(expiry, method, key, edit,
                                       t1, t1 + d2, t1 + d2 + d3))

NextCodec ==
    \/ \E h \in AuthHeaders : Validate(h)
    \/ \E t \in Landmarks : t > now /\ Tick(t - now)

SpecCodec == InitCodec /\ [][NextCodec]_vars

(* ---------------- specification of concurrent auth requests ------------ *)
\* Two clients send auth requests at the same time and nobody writes. The
\* server runs each request in a goroutine of its own; the scheduler
\* suspends one request between two of its statements and resumes the
\* other. The store holds a second user, in the second tenant, as
\* CreateUser leaves it.
SecondUser ==
    [id |-> 2, domain_id |-> 2, role_id |-> 2, first_name |-> "Bea",
     last_name |-> "Ray", username |-> "bob", email |-> "b@x.io",
     password_hash |-> hashPassword("hunter22")]

\* Switch handing the user row of the suspended request to the resumed one.
SwitchSharing ==
    /\ call' = IF call.pc \in InFlight /\ parked.pc \in InFlight
               THEN [parked EXCEPT !.concurrent = TRUE, !.user = call.user]
               ELSE parked
    /\ parked' = IF call.pc \in InFlight /\ parked.pc \in InFlight
                 THEN [call EXCEPT !.concurrent = TRUE]
                 ELSE call
    /\ UNCHANGED <<store, now, ticks, reply>>

\* The scheduler suspends the running request and resumes the other one.
Switch ==
    /\ call' = IF call.pc \in InFlight /\ parked.pc \in InFlight
               THEN [parked EXCEPT !.concurrent = TRUE]
               ELSE parked
    /\ parked' = IF call.pc \in InFlight /\ parked.pc \in InFlight
                 THEN [call EXCEPT !.concurrent = TRUE]
                 ELSE call
    /\ UNCHANGED <<store, now, ticks, reply>>

InitPar ==
    /\ domains = SeedDomains
    /\ roles = SeedRoles
    /\ users = (1 :> SeedUser) @@ (2 :> SecondUser)
    /\ allocated = [domains |-> 2, roles |-> 2, users |-> 2]
    /\ writes = 0
    /\ now = 1
    /\ ticks = 0
    /\ call = IdleCall
    /\ parked = IdleCall
    /\ reply = Unwatched

NextPar ==
    \/ \E req \in LoginRequests : Login(req)
    \/ BuildRole
    \/ BuildDomain
    \/ \E h \in AuthHeaders : Validate(h)
    \/ \E h \in AuthHeaders : GetProfile(h)
    \/ Switch

SpecPar == InitPar /\ [][NextPar]_vars

(* ------------------------------ properties ----------------------------- *)
\* The answered or in-flight request is a login whose body was bound.
BoundLogin == call.op = "Login" /\ call.username # ""

\* A request with a Bearer header, answered.
Answered(op) == call.op = op /\ call.pc = "done" /\ call.header = "bearer"

HeldClaims == DecodeClaims(call.token.payload)

\* C1: tenant isolation. A login naming domain d for a user stored under
\* another domain fails with the error "invalid credentials" and yields no
\* token, whatever password was given.
C1_TenantIsolation ==
    (BoundLogin /\ call.user # NoUser /\ call.user.domain_id # call.domainID)
        => /\ call.pc = "done"
           /\ call.err = <<"invalid credentials">>
           /\ call.token = NoToken
           /\ call.status = 401
           /\ call.body = ErrorJSON("Invalid username or password")

\* C1 witness: the user's correct password, the wrong domain, refused.
C1_Witness ==
    /\ BoundLogin /\ call.pc = "done"
    /\ call.user # NoUser
    /\ call.user.domain_id # call.domainID
    /\ call.user.password_hash = Sha256Hex(call.password)
    /\ call.status = 401

\* C2: a user stored with the hash of password p under domain d logs in
\* with (d, username, p): unless a write overtakes it the login answers
\* 200 with a token, and until its expiry ValidateToken accepts that token
\* with the user's id as UserID.
C2_CreateLoginValidate ==
    (BoundLogin /\ call.user # NoUser
        /\ call.user.username = call.username
        /\ call.user.domain_id = call.domainID
        /\ call.user.password_hash = hashPassword(call.password))
        => /\ call.overtaken \/ call.token # NoToken
           /\ (call.pc = "done" /\ ~call.overtaken)
                 => call.status = 200 /\ call.body.token = call.token
           /\ call.token # NoToken
                 => \A t \in {now, InstantOf(HeldClaims.ExpiresAt) - 1} :
                       LET res == ValidateToken(authService, call.token, t)
                       IN res.err = <<>> /\ res.claims.UserID = call.user.id

\* C2 witness: a user made by CreateUser has logged in.
C2_Witness ==
    /\ BoundLogin /\ call.pc = "done" /\ call.status = 200
    /\ call.user.id \notin DOMAIN (1 :> SeedUser)
    /\ call.user.password_hash = hashPassword(call.password)
    /\ ValidateToken(authService, call.body.token, now).claims.UserID = call.user.id

\* The signature of the token verifies under the server's secret.
SignatureVerifies(token) ==
    /\ token.header.alg \in HMACMethods
    /\ token.signature = Sign(token.header.alg, authService.jwtSecret,
                              <<token.header, token.payload>>)

DatedToken == HeldClaims.ExpiresAt # NoTime /\ HeldClaims.NotBefore # NoTime

\* C3 as stated: a token carrying both dates is accepted exactly when its
\* signature verifies under the server's secret and nbf <= now <= exp.
C3_ClosedWindow ==
    (Answered("ValidateToken") /\ DatedToken)
        => (call.status = 200
              <=> /\ SignatureVerifies(call.token)
                  /\ InstantOf(HeldClaims.NotBefore) <= now
                  /\ now <= InstantOf(HeldClaims.ExpiresAt))

\* C3 amended: a token carrying both dates is accepted exactly when its
\* signature verifies under the server's secret and nbf <= now < exp; at
\* the instant exp itself the token is already expired.
C3_HalfOpenWindow ==
    (Answered("ValidateToken") /\ DatedToken)
        => (call.status = 200
              <=> /\ SignatureVerifies(call.token)
                  /\ InstantOf(HeldClaims.NotBefore) <= now
                  /\ now < InstantOf(HeldClaims.ExpiresAt))

\* C3 witness: a correctly signed token refused at the instant of its expiry.
C3_Witness ==
    /\ Answered("ValidateToken") /\ DatedToken
    /\ SignatureVerifies(call.token)
    /\ InstantOf(HeldClaims.NotBefore) <= now
    /\ now = InstantOf(HeldClaims.ExpiresAt)
    /\ call.status = 401

\* C4: a token whose expiry is its issue instant or earlier is rejected at
\* every instant from its issuance on.
C4_NoLifetimeRejected ==
    (Answered("ValidateToken") /\ HeldClaims.ExpiresAt # NoTime
        /\ HeldClaims.ExpiresAt <= HeldClaims.IssuedAt
        /\ now >= InstantOf(HeldClaims.IssuedAt))
        => call.status = 401 /\ call.claims = NoClaims

\* C4 witness: a token of the server with exp = iat, refused as expired at
\* the instant of its issuance.
C4_Witness ==
    /\ Answered("ValidateToken")
    /\ call.token = generateToken([authService EXCEPT !.tokenExpiry = 0],
                                  SeedUser, now, now, now)
    /\ Contains(call.err, "token is expired")
    /\ call.status = 401

\* C5 as stated: a token whose header names any algorithm other than HS256
\* is rejected.
C5_OnlyHS256 ==
    (Answered("ValidateToken") /\ call.token.header.alg # "HS256")
        => call.status = 401

\* C6: a login that fails for an unknown username, for the wrong domain or
\* for the wrong password returns the same error, the same status and the
\* same body.
C6_LoginFailuresAlike ==
    (BoundLogin /\ call.pc = "done"
        /\ \/ call.user = NoUser
           \/ call.user.domain_id # call.domainID
           \/ call.user.password_hash # Sha256Hex(call.password))
        => /\ call.err = <<"invalid credentials">>
           /\ call.status = 401
           /\ call.body = ErrorJSON("Invalid username or password")
           /\ call.token = NoToken

\* C6 witness: the right domain and a wrong password.
C6_Witness ==
    /\ BoundLogin /\ call.pc = "done"
    /\ call.user # NoUser
    /\ call.user.domain_id = call.domainID
    /\ call.user.password_hash # Sha256Hex(call.password)
    /\ call.status = 401

\* The error ValidateToken returns for an expired token of the server.
ExpiredTokenError ==
    ValidateToken(authService, generateToken(authService, SeedUser, 0, 0, 0),
                  tokenExpiry).err

\* C7 as stated: the error ValidateToken returns for a forged token, one
\* whose HS256 signature does not verify, is the error value it returns for
\* an expired token.
C7_OpaqueError ==
    (Answered("ValidateToken") /\ call.token.header.alg = "HS256"
        /\ ~SignatureVerifies(call.token))
        => call.err = ExpiredTokenError

\* C8: validation is stateless. A token Login issued is accepted until its
\* expiry with the claims it carries, whatever happened to the user since.
C8_NoRevocation ==
    (Answered("ValidateToken") /\ call.token # NoToken
        /\ now < InstantOf(HeldClaims.ExpiresAt))
        => /\ call.status = 200
           /\ call.claims = HeldClaims
           /\ call.body = [valid |-> TRUE, claims |-> call.token.payload]

\* C8 witness: the token of a deleted user is accepted.
C8_Witness ==
    /\ Answered("ValidateToken")
    /\ call.status = 200
    /\ call.claims.UserID \notin DOMAIN users

\* C9: GetProfile answers with the stored username, email, names and role
\* of the user, ValidateToken with the username and role id the token has
\* carried since Login issued it.
C9_FreshnessSplit ==
    /\ (BoundLogin /\ call.token # NoToken)
          => /\ HeldClaims.Username = call.user.username
             /\ HeldClaims.RoleID = call.user.role_id
    /\ (Answered("ValidateToken") /\ call.status = 200)
          => /\ call.claims.Username = HeldClaims.Username
             /\ call.claims.RoleID = HeldClaims.RoleID
    /\ (Answered("GetProfile") /\ call.status = 200 /\ ~call.overtaken)
          => LET u == users[HeldClaims.UserID]
             IN /\ call.profile.Username = u.username
                /\ call.profile.Email = u.email
                /\ call.profile.FirstName = u.first_name
                /\ call.profile.LastName = u.last_name
                /\ call.profile.Role.ID = u.role_id

\* C9 witness: after an update the profile shows a username the token
\* does not carry.
C9_Witness ==
    /\ Answered("GetProfile") /\ call.status = 200 /\ ~call.overtaken
    /\ call.profile.Username # HeldClaims.Username
    /\ ValidateToken(authService, call.token, now).claims.Username
          = HeldClaims.Username

\* C10: the profile Login and GetProfile return holds the user's id,
\* username, email and names, the role's id, name and claims, and the
\* domain's id, display name and, as third field, its tenant key.
C10_ProfileAssembly ==
    (call.op \in {"Login", "GetProfile"} /\ call.pc = "done"
        /\ call.status = 200 /\ ~call.overtaken)
        => LET u == users[call.user.id]
               r == roles[u.role_id]
               d == domains[u.domain_id]
           IN /\ call.profile.ID = u.id
              /\ call.profile.Username = u.username
              /\ call.profile.Email = u.email
              /\ call.profile.FirstName = u.first_name
              /\ call.profile.LastName = u.last_name
              /\ call.profile.Role.ID = r.id
              /\ call.profile.Role.Name = r.role_name
              /\ call.profile.Role.Claims = UnmarshalClaims(r.role_claims)
              /\ call.profile.Domain.ID = d.domain_id
              /\ call.profile.Domain.Name = d.name
              /\ call.profile.Domain.Description = d.domain
              /\ call.body \in {ProfileJSON(call.profile),
                                [token |-> call.token,
                                 user |-> ProfileJSON(call.profile)]}

\* C10 witness: a profile whose domain has a display name other than its
\* tenant key.
C10_Witness ==
    /\ call.op \in {"Login", "GetProfile"} /\ call.pc = "done"
    /\ call.status = 200 /\ ~call.overtaken
    /\ call.profile.Domain.Description = domains[call.user.domain_id].domain
    /\ call.profile.Domain.Description # call.profile.Domain.Name

\* The held token is one generateToken makes for the seeded user under the
\* configured secret and lifetime, whatever its three readings of the clock.
IssuedByLogin ==
    \E t1 \in CodecInstants, d2 \in 0..1, d3 \in 0..1 :
        call.token = generateToken(authService, SeedUser,
                                   t1, t1 + d2, t1 + d2 + d3)

\* C11 as stated: every token Login issues expires exactly 24 hours after
\* its issued-at, and its not-before equals its issued-at.
C11_FixedLifetime ==
    IssuedByLogin
        => /\ HeldClaims.ExpiresAt = HeldClaims.IssuedAt + NewNumericDate(tokenExpiry)
           /\ HeldClaims.NotBefore = HeldClaims.IssuedAt

\* C12: issue/verify round trip. Until its expiry ValidateToken returns, for
\* the token Login generated, the user id, domain id, username and role id
\* of the user row Login read, and the user id as subject.
C12_IssueVerifyRoundTrip ==
    (BoundLogin /\ call.token # NoToken)
        => \A t \in {now, InstantOf(HeldClaims.ExpiresAt) - 1} :
              LET res == ValidateToken(authService, call.token, t)
              IN /\ res.err = <<>>
                 /\ res.claims.UserID = call.user.id
                 /\ res.claims.DomainID = call.user.domain_id
                 /\ res.claims.Username = call.user.username
                 /\ res.claims.RoleID = call.user.role_id
                 /\ res.claims.Subject = UUIDString(call.user.id)
                 /\ res.claims.Issuer = "nusarithm-iam"

\* C12 witness: the token of a user whose role id is not its domain id.
C12_Witness ==
    /\ BoundLogin /\ call.token # NoToken /\ call.pc = "done"
    /\ call.user.role_id # call.user.domain_id
    /\ ValidateToken(authService, call.token, now).claims.RoleID = call.user.role_id

\* C13: credential hasher. verify(hash(p), p2) is true exactly when p2 = p,
\* for userService.VerifyPassword and for authService.verifyPassword alike,
\* on fresh digests and on every digest CreateUser or ResetUserPassword has
\* stored; users with the same password store the same digest, and Login
\* refuses a password exactly when userService.VerifyPassword refuses it.
C13_CredentialHasher ==
    /\ \A p \in Passwords, p2 \in Passwords :
          /\ VerifyPassword(hashPassword(p), p2) <=> (p2 = p)
          /\ verifyPassword(hashPassword(p), p2) <=> (p2 = p)
    /\ \A u \in DOMAIN users :
          /\ \E p \in Passwords : VerifyPassword(users[u].password_hash, p)
          /\ \A p \in Passwords :
                VerifyPassword(users[u].password_hash, p)
                   <=> verifyPassword(users[u].password_hash, p)
    /\ \A u \in DOMAIN users, v \in DOMAIN users, p \in Passwords :
          (VerifyPassword(users[u].password_hash, p)
              /\ VerifyPassword(users[v].password_hash, p))
             => users[u].password_hash = users[v].password_hash
    /\ (BoundLogin /\ call.user # NoUser /\ call.user.domain_id = call.domainID)
          => (Contains(call.err, "invalid credentials")
                <=> ~VerifyPassword(call.user.password_hash, call.password))

\* C13 witness: two users store the digest of the same password, and the
\* second has logged in with it.
C13_Witness ==
    /\ \E u \in DOMAIN users, v \in DOMAIN users :
          u # v /\ users[u].password_hash = users[v].password_hash
    /\ BoundLogin /\ call.token # NoToken
    /\ call.user.id \notin DOMAIN (1 :> SeedUser)
    /\ VerifyPassword(call.user.password_hash, call.password)

\* The role or the domain lookup of buildUserProfile missed.
DependencyMissed ==
    /\ call.op \in {"Login", "GetProfile"} /\ call.pc = "done"
    /\ Contains(call.err, "failed to get role")
          \/ Contains(call.err, "failed to get domain")

\* C14 as stated: when the role or the domain lookup misses while a profile
\* is assembled, the service error is neither invalid credentials nor user
\* not found, and the response is an internal error, not a 401.
C14_DependencyNotFoundInternal ==
    DependencyMissed
        => /\ ~Contains(call.err, "invalid credentials")
           /\ ~Contains(call.err, "user not found")
           /\ call.status = 500

\* C15 as stated: when the user lookup of Login fails because the database
\* is unreachable, the login is answered at once with an internal failure:
\* not with the invalid-credentials error, not with 401.
C15_StorageFailureInternal ==
    (BoundLogin /\ call.storage = "unreachable")
        => /\ call.pc = "done"
           /\ ~Contains(call.err, "invalid credentials")
           /\ call.status = 500

\* A login whose credentials do not match: no row for the username, a row
\* of another domain, or another password digest.
CredentialMismatch ==
    /\ BoundLogin /\ call.storage = "up"
    /\ \/ call.user = NoUser
       \/ call.user.domain_id # call.domainID
       \/ call.user.password_hash # Sha256Hex(call.password)

\* C16 as stated: POST /auth/login answers 400, without calling Login, when
\* the X-NRM-DID header is missing or not a UUID, 401 exactly when Login
\* fails by credential mismatch, 500 for every other failure of Login, and
\* 200 with token and profile only when Login succeeded.
C16_LoginStatusMapping ==
    (call.op = "Login" /\ call.pc = "done")
        => /\ call.status \in {200, 400, 401, 500}
           /\ call.header \in {"missing", "malformed"}
                 => call.status = 400 /\ call.user = NoUser /\ call.err = <<>>
           /\ call.status = 401 <=> CredentialMismatch
           /\ (call.err # <<>> /\ ~CredentialMismatch) => call.status = 500
           /\ call.status = 200
                 => /\ call.err = <<>> /\ call.token # NoToken
                    /\ call.body = [token |-> call.token,
                                    user |-> ProfileJSON(call.profile)]

\* C17: GET /auth/profile answers 401 when the Authorization header is
\* missing or lacks the Bearer prefix, when the token is invalid or
\* expired, and when the user of a valid token is no longer stored; it
\* answers 200 only with a profile built from the row stored under the
\* user id of a valid token.
C17_ProfileUnauthorized ==
    (call.op = "GetProfile" /\ call.pc = "done")
        => LET valid == ValidateToken(authService, call.token, now).err = <<>>
           IN /\ call.status \in {200, 401}
              /\ call.header \in {"missing", "no-bearer-prefix"}
                    => call.status = 401 /\ call.user = NoUser
              /\ (call.header = "bearer" /\ ~valid)
                    => /\ call.status = 401
                       /\ call.body = ErrorJSON("Invalid or expired token")
              /\ (call.header = "bearer" /\ valid /\ ~call.overtaken
                    /\ HeldClaims.UserID \notin DOMAIN users)
                    => /\ call.status = 401
                       /\ call.body = ErrorJSON("User not found")
              /\ call.status = 200
                    => /\ call.header = "bearer" /\ valid
                       /\ call.user.id = HeldClaims.UserID
                       /\ call.profile.ID = HeldClaims.UserID
                       /\ call.body = ProfileJSON(call.profile)
                       /\ ~call.overtaken => call.user = users[HeldClaims.UserID]

\* C17 witness: a valid token whose user has been deleted, answered 401.
C17_Witness ==
    /\ call.op = "GetProfile" /\ call.pc = "done"
    /\ call.header = "bearer"
    /\ ValidateToken(authService, call.token, now).err = <<>>
    /\ HeldClaims.UserID \notin DOMAIN users
    /\ call.err = <<"user not found">>
    /\ call.status = 401

\* A step of Login, ValidateToken or GetProfile: the request record changes
\* otherwise than by being overtaken by a write.
AuthStep ==
    /\ call' # call
    /\ call'.op \in {"Login", "ValidateToken", "GetProfile"}
    /\ ~call'.overtaken \/ call.overtaken

\* C18: the auth core issues no writes. Every step of Login, ValidateToken
\* and GetProfile, succeeding or failing, leaves the stored domains, roles
\* and users, password digests included, unchanged.
C18_AuthIssuesNoWrites ==
    [][AuthStep => UNCHANGED <<domains, roles, users, allocated, writes>>]_vars

\* C18 witness: a login and a profile request have been answered and the
\* store is still the seeded one.
C18_Witness ==
    /\ call.op = "GetProfile" /\ call.pc = "done" /\ call.status = 200
    /\ domains = SeedDomains /\ roles = SeedRoles /\ users = (1 :> SeedUser)
    /\ writes = 0

\* What the handlers answer to the request of c when it runs alone against
\* the present store at the present instant, statement after statement.
RunAlone(c) ==
    LET R(status, body) == [status |-> status, body |-> body]
        Profile(user) ==
            ProfileJSON(UserProfile(user, RoleGetByID(user.role_id),
                                    DomainGetByID(user.domain_id)))
    IN IF c.op = "Login"
       THEN IF c.header = "missing"
            THEN R(400, ErrorJSON("X-NRM-DID header is required"))
            ELSE IF c.header = "malformed"
            THEN R(400, ErrorJSON("Invalid domain UUID in X-NRM-DID header"))
            ELSE IF c.username = ""
            THEN R(400, ErrorJSON("binding error"))
            ELSE LET user == IF c.storage = "unreachable"
                             THEN NoUser
                             ELSE UserGetByUsername(c.username)
                 IN IF LoginError(user, c.domainID, c.password) # <<>>
                    THEN R(401, ErrorJSON("Invalid username or password"))
                    ELSE R(200, [token |-> generateToken(authService, user,
                                                         now, now, now),
                                 user |-> Profile(user)])
       ELSE IF c.header = "missing"
       THEN R(401, ErrorJSON("Authorization header is required"))
       ELSE IF c.header = "no-bearer-prefix"
       THEN R(401, ErrorJSON("Invalid authorization header format"))
       ELSE LET res == ValidateToken(authService, c.token, now)
            IN IF res.err # <<>>
               THEN R(401, ErrorJSON("Invalid or expired token"))
               ELSE IF c.op = "ValidateToken"
               THEN R(200, [valid |-> TRUE, claims |-> c.token.payload])
               ELSE IF UserGetByID(res.claims.UserID) = NoUser
               THEN R(401, ErrorJSON("User not found"))
               ELSE R(200, Profile(UserGetByID(res.claims.UserID)))

\* C19: auth calls are independent. With no storage writes, however the
\* statements of two concurrent Login, ValidateToken and GetProfile calls
\* interleave, each call is answered as it is when it runs alone, and the
\* tokens issued are signed under the configured secret with the configured
\* lifetime.
C19_AuthCallsIndependent ==
    \A c \in {call, parked} :
        c.pc = "done"
            => /\ c.status = RunAlone(c).status
               /\ c.body = RunAlone(c).body
               /\ (c.op = "Login" /\ c.status = 200)
                      => c.body.token = generateToken(authService, c.user,
                                                      now, now, now)

\* C19 witness: a login and a profile request of two different users, each
\* suspended while the other was in flight, have both been answered 200.
C19_Witness ==
    /\ call.op = "Login" /\ call.pc = "done" /\ call.status = 200
    /\ parked.op = "GetProfile" /\ parked.pc = "done" /\ parked.status = 200
    /\ call.concurrent /\ parked.concurrent
    /\ call.user.id # parked.user.id

(* ------------------ specification of the storage writes ---------------- *)
\* The tables as any earlier sequence of writes can have left them: each
\* seeded domain kept or deleted, each role in any remaining domain or
\* deleted, the user in any remaining domain under any remaining role or
\* deleted. Every foreign key references a row, as the constraints of the
\* three tables enforce on every statement.
InitStore ==
    /\ \E ds \in SUBSET (DOMAIN SeedDomains) : domains = Restrict(SeedDomains, ds)
    /\ \E f \in [DOMAIN SeedRoles -> {0} \cup DOMAIN domains] :
          roles = [r \in {x \in DOMAIN SeedRoles : f[x] # 0} |->
                      [SeedRoles[r] EXCEPT
                          !.domain_id = f[r],
                          !.role_name = IF r = 1 THEN "admin" ELSE "viewer"]]
    /\ \/ users = Restrict((1 :> SeedUser), {})
       \/ \E d \in DOMAIN domains, r \in DOMAIN roles :
             users = (1 :> [SeedUser EXCEPT !.domain_id = d, !.role_id = r])
    /\ allocated = [domains |-> 2, roles |-> 2, users |-> 1]
    /\ writes = 0
    /\ now = 1
    /\ ticks = 0
    /\ call = IdleCall
    /\ parked = IdleCall
    /\ reply = Unwatched

NextStore ==
    \/ \E n \in DomainNames, k \in DomainKeys : CreateDomain(n, k)
    \/ \E id \in DomainIDs, n \in DomainNames, k \in DomainKeys : UpdateDomain(id, n, k)
    \/ \E id \in DomainIDs : DeleteDomain(id)
    \/ \E d \in DomainIDs, n \in RoleNames, c \in ClaimMaps : CreateRole(d, n, c)
    \/ \E id \in RoleIDs, n \in RoleNames, c \in ClaimMaps : UpdateRole(id, n, c)
    \/ \E id \in RoleIDs : DeleteRole(id)
    \/ \E d \in DomainIDs, r \in RoleIDs, f \in FirstNames, l \in LastNames,
          u \in Usernames, e \in Emails, p \in Passwords :
            CreateUser(d, r, f, l, u, e, p)
    \/ \E id \in UserIDs, f \in FirstNames, l \in LastNames, u \in Usernames,
          e \in Emails, r \in RoleIDs :
            UpdateUser(id, f, l, u, e, r)
    \/ \E id \in UserIDs, p \in Passwords : ResetUserPassword(id, p)
    \/ \E id \in UserIDs : DeleteUser(id)

SpecStore == InitStore /\ [][NextStore]_vars

\* C20: referential integrity with cascade. After any create, update or
\* delete, every user's domain_id and role_id and every role's domain_id
\* reference an existing row: DeleteDomain(D) leaves no role and no user of
\* D, and DeleteRole(R) leaves no user whose role is R.
C20_ReferentialIntegrity ==
    /\ \A u \in DOMAIN users :
          /\ users[u].domain_id \in DOMAIN domains
          /\ users[u].role_id \in DOMAIN roles
    /\ \A r \in DOMAIN roles : roles[r].domain_id \in DOMAIN domains

\* C20 witness: after one delete, domain 2 and its role remain, while
\* domain 1 or role 1 is gone and the user that referenced it with it.
C20_Witness ==
    /\ writes = 1
    /\ DOMAIN domains = {2}
    /\ DOMAIN roles = {2}
    /\ roles[2].domain_id = 2
    /\ DOMAIN users = {}

(* --------------- specification of the writing handlers ----------------- *)
\* The tables as earlier writes can have left them, with up to two users,
\* and an administrator whose write requests and their responses are
\* followed.
InitWrite ==
    /\ \E ds \in SUBSET (DOMAIN SeedDomains) : domains = Restrict(SeedDomains, ds)
    /\ \E f \in [DOMAIN SeedRoles -> {0} \cup DOMAIN domains] :
          roles = [r \in {x \in DOMAIN SeedRoles : f[x] # 0} |->
                      [SeedRoles[r] EXCEPT
                          !.domain_id = f[r],
                          !.role_name = IF r = 1 THEN "admin" ELSE "viewer"]]
    /\ \E us \in SUBSET {SeedUser.id, SecondUser.id} :
          /\ \E f \in [us -> (DOMAIN domains) \X (DOMAIN roles)] :
                users = [u \in us |->
                            [(IF u = SeedUser.id THEN SeedUser ELSE SecondUser)
                                EXCEPT !.domain_id = f[u][1], !.role_id = f[u][2]]]
          /\ allocated = [domains |-> 2, roles |-> 2,
                          users |-> IF SecondUser.id \in us THEN 2 ELSE 1]
    /\ writes = 0
    /\ now = 1
    /\ ticks = 0
    /\ call = IdleCall
    /\ parked = IdleCall
    /\ reply = NoReply

SpecWrite == InitWrite /\ [][NextStore]_vars

\* The write request answered in this step.
Written(ops) == writes' = writes + 1 /\ reply'.op \in ops

\* C21: uniqueness. No two users share a username or an email and no two
\* roles of one domain share a role name; a CreateUser, UpdateUser,
\* CreateRole or UpdateRole whose row would break this is answered with an
\* error and leaves the tables as they were.
C21_Uniqueness ==
    /\ [](/\ \A u, v \in DOMAIN users :
                u # v => /\ users[u].username # users[v].username
                         /\ users[u].email # users[v].email
          /\ \A r, s \in DOMAIN roles :
                (r # s /\ roles[r].domain_id = roles[s].domain_id)
                    => roles[r].role_name # roles[s].role_name)
    /\ [][/\ (/\ Written({"CreateUser"})
              /\ \E u \in DOMAIN users :
                    \/ users[u].username = reply'.req.username
                    \/ users[u].email = reply'.req.email)
             => reply'.status = 500 /\ UNCHANGED <<domains, roles, users>>
          /\ (/\ Written({"UpdateUser"})
              /\ reply'.id \in DOMAIN users
              /\ \E u \in DOMAIN users \ {reply'.id} :
                    \/ users[u].username = reply'.req.username
                    \/ users[u].email = reply'.req.email)
             => reply'.status = 500 /\ UNCHANGED <<domains, roles, users>>
          /\ (/\ Written({"CreateRole"})
              /\ \E r \in DOMAIN roles :
                    /\ roles[r].role_name = reply'.req.role_name
                    /\ roles[r].domain_id = reply'.req.domain_id)
             => reply'.status = 500 /\ UNCHANGED <<domains, roles, users>>
          /\ (/\ Written({"UpdateRole"})
              /\ reply'.id \in DOMAIN roles
              /\ \E r \in DOMAIN roles \ {reply'.id} :
                    /\ roles[r].role_name = reply'.req.role_name
                    /\ roles[r].domain_id = roles[reply'.id].domain_id)
             => reply'.status = 500 /\ UNCHANGED <<domains, roles, users>>
         ]_vars

\* C21 witness: an UpdateUser that asked for the other user's email while
\* keeping its own username has been refused.
C21_Witness ==
    /\ reply.op = "UpdateUser" /\ reply.status = 500
    /\ reply.id \in DOMAIN users
    /\ users[reply.id].username = reply.req.username
    /\ reply.req.role_id \in DOMAIN roles
    /\ \E u \in DOMAIN users \ {reply.id} : users[u].email = reply.req.email

(* ------------- specification of logins among the user writes ----------- *)
\* One or two users, each in a tenant of its own, log in and read their
\* profile while an administrator creates, updates and deletes users and
\* roles and resets passwords.
InitLogin ==
    /\ domains = SeedDomains
    /\ roles = SeedRoles
    /\ \/ users = (1 :> SeedUser) /\ allocated = [domains |-> 2, roles |-> 2, users |-> 1]
       \/ /\ users = (1 :> SeedUser) @@ (2 :> SecondUser)
          /\ allocated = [domains |-> 2, roles |-> 2, users |-> 2]
    /\ writes = 0
    /\ now = 1
    /\ ticks = 0
    /\ call = IdleCall
    /\ parked = IdleCall
    /\ reply = Unwatched

NextLogin ==
    \/ \E d \in DomainIDs, r \in RoleIDs, f \in FirstNames, l \in LastNames,
          u \in Usernames, e \in Emails, p \in Passwords :
            CreateUser(d, r, f, l, u, e, p)
    \/ \E id \in UserIDs, f \in FirstNames, l \in LastNames, u \in Usernames,
          e \in Emails, r \in RoleIDs :
            UpdateUser(id, f, l, u, e, r)
    \/ \E id \in RoleIDs, n \in RoleNames, c \in ClaimMaps : UpdateRole(id, n, c)
    \/ \E id \in UserIDs, p \in Passwords : ResetUserPassword(id, p)
    \/ \E id \in UserIDs : DeleteUser(id)
    \/ \E id \in RoleIDs : DeleteRole(id)
    \/ \E id \in DomainIDs : DeleteDomain(id)
    \/ \E req \in LoginRequests : Login(req)
    \/ BuildRole
    \/ BuildDomain
    \/ \E h \in AuthHeaders : GetProfile(h)

SpecLogin == InitLogin /\ [][NextLogin]_vars

\* The stored user row u references a role of another domain than its own.
CrossTenant(u) ==
    /\ u.role_id \in DOMAIN roles
    /\ u.domain_id \in DOMAIN domains
    /\ roles[u.role_id].domain_id # u.domain_id

\* C22: cross-tenant role assignment is not prevented. CreateUser and
\* UpdateUser store any existing role id, and for a user whose role belongs
\* to another domain Login with the user's credentials and GetProfile with
\* the user's token answer 200 with that foreign role in the profile.
C22_CrossTenantRole ==
    (/\ call.op \in {"Login", "GetProfile"} /\ call.pc = "done"
     /\ ~call.overtaken
     /\ call.user # NoUser
     /\ CrossTenant(call.user)
     /\ call.op = "Login"
           => /\ call.user.domain_id = call.domainID
              /\ verifyPassword(call.user.password_hash, call.password))
        => /\ call.status = 200
           /\ call.profile.Role.ID = call.user.role_id
           /\ call.profile.Domain.ID = call.user.domain_id
           /\ roles[call.profile.Role.ID].domain_id # call.profile.Domain.ID
           /\ call.profile.Role.Name = roles[call.user.role_id].role_name
           /\ call.body \in {ProfileJSON(call.profile),
                             [token |-> call.token,
                              user |-> ProfileJSON(call.profile)]}

\* C22 witness: the profile request of a user that CreateUser or UpdateUser
\* has given a role of the other domain is answered with that role.
C22_Witness ==
    /\ call.op = "GetProfile" /\ call.pc = "done" /\ call.status = 200
    /\ ~call.overtaken
    /\ writes = 1
    /\ call.user = users[call.user.id]
    /\ CrossTenant(call.user)
    /\ call.profile.Role.ID = call.user.role_id

(* ---------------- specification of the listing handlers ---------------- *)
\* Rows to list: identifiers, and names whose alphabetical order differs
\* from the order of the identifiers.
PoolIDs == 1..MaxRoles
UsernamePool == <<"carol", "alice", "bob", "dave", "erin">>
EmailPool == <<"c@x.io", "a@x.io", "b@x.io", "d@x.io", "e@x.io">>
RoleNamePool == <<"viewer", "admin", "editor", "owner", "auditor">>

\* The order of ORDER BY on the names in use.
Collation ==
    <<"Acme", "admin", "alice", "auditor", "Beta", "bob", "carol", "dave",
      "editor", "erin", "owner", "viewer">>

Rank(s) == CHOOSE i \in 1..Len(Collation) : Collation[i] = s

\* value ILIKE '%' || term || '%' on the names in use.
ILike(value, term) ==
    CASE term = "ali" -> value = "alice"
      [] term = "x.io" -> \E i \in 1..Len(EmailPool) : EmailPool[i] = value
      [] term = "ADMIN" -> value = "admin"
      [] term = "r" -> value \in {"carol", "erin", "Ray", "viewer", "editor",
                                  "owner", "auditor"}
      [] term = "acme" -> value \in {"Acme", "acme"}
      [] OTHER -> FALSE

\* The query string of a listing request: domainId omitted, malformed or a
\* UUID; search omitted ("") or a term; page and limit as strconv.Atoi
\* reads them.
DomainParams == {<<"omitted">>, <<"malformed">>} \cup {<<"uuid", d>> : d \in DomainIDs}
SearchTerms == {"", "ali", "x.io", "ADMIN", "r", "acme", "zzz"}
Pages == {0, 1, 2, 3}
Limits == {-1, 0, 1, 2, 100, 101}
ListQueries ==
    [domainId : DomainParams, search : SearchTerms, page : Pages, limit : Limits]

\* The sequences that hold each element of S once, in ascending order of
\* key: what ORDER BY key may return.
OrderBy(S, key) ==
    {s \in [1..Cardinality(S) -> S] :
        /\ \A i, j \in 1..Cardinality(S) : i # j => s[i] # s[j]
        /\ \A i, j \in 1..Cardinality(S) : i < j => Rank(key[s[i]]) <= Rank(key[s[j]])}

\* offset := page * limit, as if pages were counted from zero.
OffsetFromZero(page, limit) == page * limit

\* offset := (page - 1) * limit
Offset(page, limit) == (page - 1) * limit

\* LIMIT limit OFFSET offset over the ordered rows.
LimitOffset(rows, limit, offset) ==
    SubSeq(rows, offset + 1,
           IF offset + limit < Len(rows) THEN offset + limit ELSE Len(rows))

\* The result a repository's ListWithPagination returns for `matching` rows
\* listed in the order `rows`.
ListResult(rows, page, limit) ==
    [items |-> LimitOffset(rows, limit, Offset(page, limit)),
     total |-> Len(rows),
     page |-> page,
     limit |-> limit,
     total_pages |-> (Len(rows) + limit - 1) \div limit]

\* userRepository.ListWithPagination: the results the two queries can give.
UserListWithPagination(search, domainID, page, limit) ==
    LET matching ==
            {u \in DOMAIN users :
                /\ users[u].domain_id = domainID
                /\ \/ search = ""
                   \/ ILike(users[u].username, search)
                   \/ ILike(users[u].email, search)
                   \/ ILike(users[u].first_name, search)
                   \/ ILike(users[u].last_name, search)}
        username == [u \in DOMAIN users |-> users[u].username]
    IN {ListResult(rows, page, limit) : rows \in OrderBy(matching, username)}

\* roleRepository.ListWithPagination
RoleListWithPagination(search, domainID, page, limit) ==
    LET matching ==
            {r \in DOMAIN roles :
                /\ roles[r].domain_id = domainID
                /\ search = "" \/ ILike(roles[r].role_name, search)}
        role_name == [r \in DOMAIN roles |-> roles[r].role_name]
    IN {ListResult(rows, page, limit) : rows \in OrderBy(matching, role_name)}

\* domainRepository.ListWithPagination
DomainListWithPagination(search, page, limit) ==
    LET matching ==
            {d \in DOMAIN domains :
                \/ search = ""
                \/ ILike(domains[d].name, search)
                \/ ILike(domains[d].domain, search)}
        name == [d \in DOMAIN domains |-> domains[d].name]
    IN {ListResult(rows, page, limit) : rows \in OrderBy(matching, name)}

\* The defaults the three services set before they call the repository.
ServicePage(page) == IF page <= 0 THEN 1 ELSE page
ServiceLimit(limit) == IF limit <= 0 \/ limit > 100 THEN 10 ELSE limit

\* userService.ListUsersWithPagination
ListUsersWithPagination(search, domainID, page, limit) ==
    UserListWithPagination(search, domainID, ServicePage(page), ServiceLimit(limit))

\* roleService.ListRolesWithPagination
ListRolesWithPagination(search, domainID, page, limit) ==
    RoleListWithPagination(search, domainID, ServicePage(page), ServiceLimit(limit))

\* domainService.ListDomainsWithPagination
ListDomainsWithPagination(search, page, limit) ==
    DomainListWithPagination(search, ServicePage(page), ServiceLimit(limit))

\* The page and limit a listing handler passes on.
HandlerPage(page) == IF page < 1 THEN 1 ELSE page
HandlerLimit(limit) == IF limit < 1 THEN 10 ELSE limit

\* var domainID uuid.UUID, parsed from the query when domainId is given.
QueryDomainID(param) == IF param[1] = "uuid" THEN param[2] ELSE NilUUID

\* The listing request q, the one request that is followed, answered with
\* one of `results`, its rows encoded by `row`.
Listed(op, q, results, row) ==
    /\ reply = NoReply
    /\ \E res \in results :
          reply' = WriteReply(op, NilUUID, q, 200,
                              [rows |-> [i \in 1..Len(res.items) |-> row[res.items[i]]],
                               total |-> res.total, page |-> res.page,
                               limit |-> res.limit,
                               total_pages |-> res.total_pages])
    /\ UNCHANGED <<store, now, ticks, call, parked>>

Refused(op, q, status, msg) ==
    /\ reply = NoReply
    /\ reply' = WriteReply(op, NilUUID, q, status, ErrorJSON(msg))
    /\ UNCHANGED <<store, now, ticks, call, parked>>

\* GET /users: UserHandler.ListUsers
ListUsers(q) ==
    LET user == [u \in DOMAIN users |->
                    UserEntity(u, users[u].domain_id, users[u].role_id,
                               users[u].first_name, users[u].last_name,
                               users[u].username, users[u].email)]
    IN IF q.domainId = <<"malformed">>
       THEN Refused("ListUsers", q, 400, "Invalid domain UUID")
       ELSE Listed("ListUsers", q,
                   ListUsersWithPagination(q.search, QueryDomainID(q.domainId),
                                           HandlerPage(q.page), HandlerLimit(q.limit)),
                   user)

\* GET /roles: RoleHandler.ListRoles
ListRoles(q) ==
    LET role == [r \in DOMAIN roles |->
                    RoleEntity(r, roles[r].domain_id, roles[r].role_name,
                               UnmarshalClaims(roles[r].role_claims))]
    IN IF q.domainId = <<"malformed">>
       THEN Refused("ListRoles", q, 400, "Invalid domain UUID")
       ELSE Listed("ListRoles", q,
                   ListRolesWithPagination(q.search, QueryDomainID(q.domainId),
                                           HandlerPage(q.page), HandlerLimit(q.limit)),
                   role)

\* GET /domains: DomainHandler.ListDomains
ListDomains(q) ==
    LET domain == domains
    IN /\ q.domainId = <<"omitted">>
       /\ Listed("ListDomains", q,
                 ListDomainsWithPagination(q.search, HandlerPage(q.page),
                                           HandlerLimit(q.limit)),
                 domain)

\* Both tenants, and for each identifier of the pool a role and a user of
\* that role in the same tenant, or neither.
InitList ==
    /\ domains = SeedDomains
    /\ \E f \in [PoolIDs -> {0} \cup DOMAIN SeedDomains] :
          LET present == {i \in PoolIDs : f[i] # 0}
          IN /\ roles = [i \in present |->
                            [id |-> i, domain_id |-> f[i],
                             role_name |-> RoleNamePool[i],
                             role_claims |-> MarshalClaims(EmptyClaims)]]
             /\ users = [i \in present |->
                            [id |-> i, domain_id |-> f[i], role_id |-> i,
                             first_name |-> "Bea", last_name |-> "Ray",
                             username |-> UsernamePool[i],
                             email |-> EmailPool[i],
                             password_hash |-> hashPassword("s3cret!")]]
    /\ allocated = [domains |-> 2, roles |-> MaxRoles, users |-> MaxRoles]
    /\ writes = 0
    /\ now = 1
    /\ ticks = 0
    /\ call = IdleCall
    /\ parked = IdleCall
    /\ reply = NoReply

NextList ==
    \/ \E q \in ListQueries : ListUsers(q)
    \/ \E q \in ListQueries : ListRoles(q)
    \/ \E q \in ListQueries : ListDomains(q)

SpecList == InitList /\ [][NextList]_vars

\* A listing answered 200.
ListedOK(ops) == reply.op \in ops /\ reply.status = 200

\* C23 as stated: the effective page is max(page, 1); the effective limit
\* is the default 10 for a requested limit below 1, the requested limit in
\* 1..100, and the maximum 100 for a requested limit above 100.
C23_LimitsClamped ==
    ListedOK({"ListUsers", "ListRoles", "ListDomains"})
        => /\ reply.body.page = IF reply.req.page > 1 THEN reply.req.page ELSE 1
           /\ reply.body.limit = IF reply.req.limit < 1 THEN 10
                                 ELSE IF reply.req.limit <= 100 THEN reply.req.limit
                                 ELSE 100

\* The users, or the roles, that match the search term of the listing
\* answered, whatever their domain.
SearchMatches ==
    IF reply.op = "ListUsers"
    THEN {u \in DOMAIN users :
            \/ reply.req.search = ""
            \/ \E v \in {users[u].username, users[u].email,
                         users[u].first_name, users[u].last_name} :
                  ILike(v, reply.req.search)}
    ELSE {r \in DOMAIN roles :
            reply.req.search = "" \/ ILike(roles[r].role_name, reply.req.search)}

\* The domain of the row x of the table the listing answered reads.
DomainOfListed(x) ==
    IF reply.op = "ListUsers" THEN users[x].domain_id ELSE roles[x].domain_id

\* C25 as stated: domainId is an optional filter of GET /roles and GET
\* /users. Given, only the entities of that domain are listed and counted;
\* omitted, the listing and its total cover the matching entities of all
\* domains.
C25_OptionalDomainFilter ==
    ListedOK({"ListUsers", "ListRoles"})
        => LET wanted ==
                   IF reply.req.domainId = <<"omitted">>
                   THEN SearchMatches
                   ELSE {x \in SearchMatches :
                            DomainOfListed(x) = reply.req.domainId[2]}
           IN /\ reply.body.total = Cardinality(wanted)
              /\ \A i \in 1..Len(reply.body.rows) : reply.body.rows[i].id \in wanted

\* The rows of one domain that the listing answered had to return, when
\* its request named that domain.
ListedMatches ==
    {x \in SearchMatches : DomainOfListed(x) = reply.req.domainId[2]}

\* The name the listing answered is ordered by.
NameOfListed(x) ==
    IF reply.op = "ListUsers" THEN users[x].username ELSE roles[x].role_name

\* The place of the row x among the matching rows in ascending order of
\* name, counted from 1.
PlaceOfListed(x) ==
    1 + Cardinality({y \in ListedMatches :
                        Rank(NameOfListed(y)) < Rank(NameOfListed(x))})

\* The identifiers page j of the same listing holds, asked of the service
\* with the same domain, search term and limit over the same store.
PageOfListed(j) ==
    LET results ==
            IF reply.op = "ListUsers"
            THEN ListUsersWithPagination(reply.req.search, reply.req.domainId[2],
                                         j, reply.body.limit)
            ELSE ListRolesWithPagination(reply.req.search, reply.req.domainId[2],
                                         j, reply.body.limit)
    IN (CHOOSE res \in results : TRUE).items

\* C29: a user or role listing of a given domain reports Total = number of
\* matching rows and TotalPages = ceil(Total / L); its page k holds rows
\* (k-1)*L+1 .. min(k*L, Total) of the matching rows in order of name, so
\* at most L items; pages 1..TotalPages hold every matching row exactly
\* once and the page after the last is empty.
C29_PagesPartition ==
    (ListedOK({"ListUsers", "ListRoles"}) /\ reply.req.domainId[1] = "uuid")
        => LET L == reply.body.limit
               k == reply.body.page
               total == reply.body.total
               pages == reply.body.total_pages
               first == (k - 1) * L + 1
               last == IF k * L < total THEN k * L ELSE total
           IN /\ total = Cardinality(ListedMatches)
              /\ pages * L >= total
              /\ (pages - 1) * L < total \/ (pages = 0 /\ total = 0)
              /\ Len(reply.body.rows) = (IF last >= first THEN last - first + 1 ELSE 0)
              /\ Len(reply.body.rows) <= L
              /\ \A i \in 1..Len(reply.body.rows) :
                    /\ reply.body.rows[i].id \in ListedMatches
                    /\ PlaceOfListed(reply.body.rows[i].id) = first + i - 1
              /\ k > pages => reply.body.rows = <<>>
              /\ \A x \in ListedMatches :
                    Cardinality({p \in (1..pages) \X (1..L) :
                                    /\ p[2] <= Len(PageOfListed(p[1]))
                                    /\ PageOfListed(p[1])[p[2]] = x}) = 1
              /\ PageOfListed(pages + 1) = <<>>

\* The second page of a listing of three users, two to a page, was answered
\* with the one remaining user.
C29_Witness ==
    /\ ListedOK({"ListUsers"})
    /\ reply.req.domainId[1] = "uuid"
    /\ reply.body.limit = 2
    /\ reply.body.page = 2
    /\ reply.body.total = 3
    /\ Len(reply.body.rows) = 1

\* The table the write answered last addresses.
AddressedTable ==
    CASE reply.op \in {"CreateUser", "UpdateUser", "ResetUserPassword", "DeleteUser"}
            -> DOMAIN users
      [] reply.op \in {"CreateRole", "UpdateRole", "DeleteRole"} -> DOMAIN roles
      [] OTHER -> DOMAIN domains

\* C24 as stated: UpdateUser, UpdateRole, UpdateDomain and
\* ResetUserPassword addressed to an id that is not in storage answer 404.
C24_MissingNotFound ==
    (/\ reply.op \in {"UpdateUser", "UpdateRole", "UpdateDomain", "ResetUserPassword"}
     /\ reply.id \notin AddressedTable)
        => reply.status = 404

\* C30 as stated: the entity a successful UpdateUser or UpdateRole returns
\* equals the stored record in every field it exposes, domain_id included.
C30_ReturnedEqualsStored ==
    /\ (reply.op = "UpdateUser" /\ reply.status = 200 /\ reply.id \in DOMAIN users)
          => LET u == users[reply.id]
             IN reply.body = UserEntity(u.id, u.domain_id, u.role_id, u.first_name,
                                        u.last_name, u.username, u.email)
    /\ (reply.op = "UpdateRole" /\ reply.status = 200 /\ reply.id \in DOMAIN roles)
          => LET r == roles[reply.id]
             IN reply.body = RoleEntity(r.id, r.domain_id, r.role_name,
                                        UnmarshalClaims(r.role_claims))

\* Every row of table t other than the addressed one is as it was.
OthersKept(t, tAfter, id) ==
    /\ DOMAIN tAfter = DOMAIN t
    /\ \A x \in DOMAIN t \ {id} : tAfter[x] = t[x]

\* C28: frame of the writes. UpdateUser changes only the addressed user's
\* names, username, email and role id, never its id, domain_id or password
\* hash; ResetUserPassword changes only the addressed user's password
\* hash; UpdateRole and UpdateDomain change no identifier and no role's
\* domain_id; every other record of every table is unchanged.
C28_Frame ==
    [][/\ Written({"UpdateUser"})
            => /\ domains' = domains /\ roles' = roles
               /\ OthersKept(users, users', reply'.id)
               /\ reply'.id \in DOMAIN users
                    => users' = [users EXCEPT
                                   ![reply'.id].first_name = users'[reply'.id].first_name,
                                   ![reply'.id].last_name = users'[reply'.id].last_name,
                                   ![reply'.id].username = users'[reply'.id].username,
                                   ![reply'.id].email = users'[reply'.id].email,
                                   ![reply'.id].role_id = users'[reply'.id].role_id]
       /\ Written({"ResetUserPassword"})
            => /\ domains' = domains /\ roles' = roles
               /\ OthersKept(users, users', reply'.id)
               /\ reply'.id \in DOMAIN users
                    => users' = [users EXCEPT
                                   ![reply'.id].password_hash =
                                       users'[reply'.id].password_hash]
       /\ Written({"UpdateRole"})
            => /\ domains' = domains /\ users' = users
               /\ OthersKept(roles, roles', reply'.id)
               /\ reply'.id \in DOMAIN roles
                    => /\ roles'[reply'.id].id = roles[reply'.id].id
                       /\ roles'[reply'.id].domain_id = roles[reply'.id].domain_id
       /\ Written({"UpdateDomain"})
            => /\ roles' = roles /\ users' = users
               /\ OthersKept(domains, domains', reply'.id)
               /\ reply'.id \in DOMAIN domains
                    => domains'[reply'.id].domain_id = domains[reply'.id].domain_id
      ]_vars

\* A password reset of one of two users was answered 200: the addressed
\* user holds the hash of the new password, the other user a different one.
C28_Witness ==
    /\ reply.op = "ResetUserPassword"
    /\ reply.status = 200
    /\ reply.id \in DOMAIN users
    /\ users[reply.id].password_hash = hashPassword(reply.req.new_password)
    /\ \E u \in DOMAIN users \ {reply.id} :
          users[u].password_hash # users[reply.id].password_hash

\* C27: a login response is consistent under interleaving. Whatever writes
\* commit while a Login is in flight, a Login answered 200 carries a token
\* and a profile, the token's user id, domain id, role id and username
\* are the profile's id, domain.id, role.id and username, and a Login
\* answered otherwise carries no token.
C27_LoginConsistent ==
    (call.op = "Login" /\ call.pc = "done")
        => IF call.status = 200
           THEN /\ DOMAIN call.body = {"token", "user"}
                /\ call.body.token # NoToken
                /\ call.body.user = ProfileJSON(call.profile)
                /\ LET claims == call.body.token.payload
                       user == call.body.user
                   IN /\ claims.user_id = user.id
                      /\ claims.domain_id = user.domain.id
                      /\ claims.role_id = user.role.id
                      /\ claims.username = user.username
           ELSE "token" \notin DOMAIN call.body

\* A Login was answered 200 although a write committed while it was in
\* flight or since: the stored row of its user no longer has the role or
\* the username the response carries, or is gone.
C27_Witness ==
    /\ call.op = "Login" /\ call.pc = "done" /\ call.status = 200
    /\ call.overtaken
    /\ \/ call.user.id \notin DOMAIN users
       \/ /\ call.user.id \in DOMAIN users
          /\ \/ users[call.user.id].role_id # call.user.role_id
             \/ users[call.user.id].username # call.user.username

(* ------------- specification of password reset and login --------------- *)
\* One or two users log in while an administrator resets passwords and
\* deletes users; the answer to the last write is observed.
InitReset ==
    /\ domains = SeedDomains
    /\ roles = SeedRoles
    /\ \/ users = (1 :> SeedUser) /\ allocated = [domains |-> 2, roles |-> 2, users |-> 1]
       \/ /\ users = (1 :> SeedUser) @@ (2 :> SecondUser)
          /\ allocated = [domains |-> 2, roles |-> 2, users |-> 2]
    /\ writes = 0
    /\ now = 1
    /\ ticks = 0
    /\ call = IdleCall
    /\ parked = IdleCall
    /\ reply = NoReply

NextReset ==
    \/ \E id \in UserIDs, p \in Passwords : ResetUserPassword(id, p)
    \/ \E id \in UserIDs : DeleteUser(id)
    \/ \E req \in LoginRequests : Login(req)
    \/ BuildRole
    \/ BuildDomain

SpecReset == InitReset /\ [][NextReset]_vars

\* A Login that arrived after the last write, with a well-formed request
\* and the database reachable, has been answered.
LoginAnswered ==
    /\ call.op = "Login" /\ call.pc = "done"
    /\ ~call.overtaken
    /\ call.header = "uuid" /\ call.storage = "up"
    /\ call.status # 400

\* C26: a password reset takes effect for the next login. After
\* ResetUserPassword(id, new) succeeded for an existing user, Login with
\* that user's domain and username succeeds with the new password and
\* fails with invalid credentials with any other password, the previous
\* one included; the reset leaves every other user's row, and with it the
\* outcome of every login as that user, as it was.
C26_ResetTakesEffect ==
    /\ [](( /\ LoginAnswered
            /\ reply.op = "ResetUserPassword"
            /\ reply.id \in DOMAIN users
            /\ call.username = users[reply.id].username
            /\ call.domainID = users[reply.id].domain_id)
          => IF call.password = reply.req.new_password
             THEN /\ call.status = 200
                  /\ call.profile.ID = reply.id
             ELSE /\ call.status = 401
                  /\ Contains(call.err, "invalid credentials"))
    /\ [][Written({"ResetUserPassword"})
            => /\ DOMAIN users' = DOMAIN users
               /\ \A u \in DOMAIN users \ {reply'.id} :
                     /\ users'[u] = users[u]
                     /\ \A d \in DomainIDs, p \in Passwords :
                           LoginError(users'[u], d, p) = LoginError(users[u], d, p)
               /\ reply'.id \in DOMAIN users
                    => /\ users'[reply'.id].username = users[reply'.id].username
                       /\ users'[reply'.id].domain_id = users[reply'.id].domain_id
      ]_vars

\* After alice's password was reset to one that differs from her previous
\* one, her login with the new password was answered 200.
C26_Witness ==
    /\ LoginAnswered
    /\ reply.op = "ResetUserPassword"
    /\ reply.id = SeedUser.id
    /\ call.username = SeedUser.username
    /\ call.password = reply.req.new_password
    /\ hashPassword(call.password) # SeedUser.password_hash
    /\ call.status = 200

====
